---------------------------- MODULE Spec2Model ----------------------------
(***************************************************************************)
(* Model of the text -> JSON -> query -> generation pipeline of the        *)
(* parametric CAD generator:                                               *)
(*   updation_pipeline/qwen_bot/text_2_JSON.py        (the converter)      *)
(*   updation_pipeline/qwen_bot/integrated_fusion_generator.py             *)
(*   text_2_JSON.py                                   (the older script)   *)
(*                                                                         *)
(* Texts are sequences of tokens.  A token is one of the characters that   *)
(* the regular expression, the JSON grammar or str.strip/str.replace look  *)
(* at ( { } [ ] , : " backquote space newline ), or an atom: a maximal run  *)
(* of other characters ("block", "0.95", "Here").  Numbers are held in     *)
(* tenths (0.5 is 5, 1 is 10, 50 is 500).                                  *)
(***************************************************************************)
EXTENDS Integers, Sequences, FiniteSets, TLC

LB == "{"
RB == "}"
LK == "["
RK == "]"
CM == ","
CL == ":"
QT == "\""
\* the backquote character of a markdown fence (the token is spelled BQ)
BT == "BQ"
SP == " "
NL == "\n"

\* str.strip() and the JSON grammar skip these
WS == {SP, NL}

\* the largest batch the older script lets through (len(responses) > 20 is refused)
MaxBatch == 20

\* the cut of the query terms (unique_terms[:5])
MaxTerms == 5

Range(s) == {s[i] : i \in DOMAIN s}

Min(S) == CHOOSE x \in S : \A y \in S : x <= y

\* the concatenation of seqs[lo], ..., seqs[hi], halving the range so that long
\* outputs are not walked one element at a time
RECURSIVE FlattenRange(_, _, _)
FlattenRange(seqs, lo, hi) ==
    IF lo > hi THEN <<>>
    ELSE IF lo = hi THEN seqs[lo]
    ELSE FlattenRange(seqs, lo, (lo + hi) \div 2) \o FlattenRange(seqs, (lo + hi) \div 2 + 1, hi)

Flatten(seqs) == FlattenRange(seqs, 1, Len(seqs))

(***************************************************************************)
(* JSON values as Python holds them after json.loads.  Every value has the *)
(* same shape so that any two values can be compared:                      *)
(*   t  "str" "num" "bool" "null" "obj" "arr"                              *)
(*   s  the tokens of a string                                             *)
(*   n  the number, in tenths (True is 1, False is 0, as in Python)        *)
(*   f  the members of an object: key (token sequence) -> value            *)
(*   a  the elements of an array                                           *)
(***************************************************************************)
JStr(s)  == [t |-> "str",  s |-> s,    n |-> 0, f |-> <<>>, a |-> <<>>]
JNum(n)  == [t |-> "num",  s |-> <<>>, n |-> n, f |-> <<>>, a |-> <<>>]
JBool(b) == [t |-> "bool", s |-> <<>>, n |-> IF b THEN 10 ELSE 0, f |-> <<>>, a |-> <<>>]
JNull    == [t |-> "null", s |-> <<>>, n |-> 0, f |-> <<>>, a |-> <<>>]
JObj(f)  == [t |-> "obj",  s |-> <<>>, n |-> 0, f |-> f,    a |-> <<>>]
JArr(a)  == [t |-> "arr",  s |-> <<>>, n |-> 0, f |-> <<>>, a |-> a]

\* a one-atom string "block", and a key of an object
S1(x) == JStr(<<x>>)
K(x)  == <<x>>

\* the number literals of the model and their values in tenths
NumLex == [x \in {"0", "0.5", "1", "1.5", "-0.1", "2", "3", "5", "50"} |->
             CASE x = "0"    -> 0
               [] x = "0.5"  -> 5
               [] x = "1"    -> 10
               [] x = "1.5"  -> 15
               [] x = "-0.1" -> -1
               [] x = "2"    -> 20
               [] x = "3"    -> 30
               [] x = "5"    -> 50
               [] x = "50"   -> 500]

NumText(n) == CHOOSE x \in DOMAIN NumLex : NumLex[x] = n

(***************************************************************************)
(* json.loads: a strict recursive-descent parse of one JSON document.      *)
(* ParseValue(t, i) parses the value that starts at t[i] and answers       *)
(* [ok, v, j]: whether it parsed, the value, and the index after it.       *)
(***************************************************************************)
Fail == [ok |-> FALSE, v |-> JNull, j |-> 0]
Ok(v, j) == [ok |-> TRUE, v |-> v, j |-> j]

SkipWs(t, i) == Min({j \in i..(Len(t) + 1) : j = Len(t) + 1 \/ t[j] \notin WS})

\* index of the first token c at or after i, Len(t)+1 when there is none
IndexFrom(t, c, i) == Min({j \in i..(Len(t) + 1) : j = Len(t) + 1 \/ t[j] = c})

ParseString(t, i) ==
    LET close == IndexFrom(t, QT, i + 1)
        body  == SubSeq(t, i + 1, close - 1)
    IN  IF close > Len(t) \/ NL \in Range(body)
        THEN Fail
        ELSE Ok(JStr(body), close + 1)

RECURSIVE ParseValue(_, _)
RECURSIVE ParseElems(_, _, _)
RECURSIVE ParseMembers(_, _, _)

\* after "[" and one or more elements: acc holds the elements parsed so far, i is at an element
ParseElems(t, i, acc) ==
    LET After(r, k) ==
            IF ~r.ok \/ k > Len(t) THEN Fail
            ELSE IF t[k] = RK THEN Ok(JArr(Append(acc, r.v)), k + 1)
            ELSE IF t[k] = CM THEN ParseElems(t, k + 1, Append(acc, r.v))
            ELSE Fail
        Elem(r) == After(r, SkipWs(t, r.j))
    IN  Elem(ParseValue(t, SkipWs(t, i)))

\* after "{": acc holds the members parsed so far, i is at a key
ParseMembers(t, i, acc) ==
    LET After(nacc, r, k) ==
            IF ~r.ok \/ k > Len(t) THEN Fail
            ELSE IF t[k] = RB THEN Ok(JObj(nacc), k + 1)
            ELSE IF t[k] = CM THEN ParseMembers(t, k + 1, nacc)
            ELSE Fail
        Member(key, r) == After((key :> r.v) @@ acc, r, SkipWs(t, r.j))
        Colon(kr, ci) ==
            IF kr.ok /\ ci <= Len(t) /\ t[ci] = CL
            THEN Member(kr.v.s, ParseValue(t, SkipWs(t, ci + 1)))
            ELSE Fail
        Key(kr) == Colon(kr, SkipWs(t, kr.j))
        At(ki) == IF ki <= Len(t) /\ t[ki] = QT THEN Key(ParseString(t, ki)) ELSE Fail
    IN  At(SkipWs(t, i))

ParseValue(t, i) ==
    IF i > Len(t) THEN Fail
    ELSE IF t[i] = QT THEN ParseString(t, i)
    ELSE IF t[i] \in DOMAIN NumLex THEN Ok(JNum(NumLex[t[i]]), i + 1)
    ELSE IF t[i] = "true" THEN Ok(JBool(TRUE), i + 1)
    ELSE IF t[i] = "false" THEN Ok(JBool(FALSE), i + 1)
    ELSE IF t[i] = "null" THEN Ok(JNull, i + 1)
    ELSE IF t[i] = LK
         THEN LET k == SkipWs(t, i + 1)
              IN  IF k <= Len(t) /\ t[k] = RK THEN Ok(JArr(<<>>), k + 1)
                  ELSE ParseElems(t, i + 1, <<>>)
    ELSE IF t[i] = LB
         THEN LET k == SkipWs(t, i + 1)
              IN  IF k <= Len(t) /\ t[k] = RB THEN Ok(JObj(<<>>), k + 1)
                  ELSE ParseMembers(t, i + 1, <<>>)
    ELSE Fail

\* json.loads(text): the whole text is one document; ok = FALSE is JSONDecodeError
json_loads(t) ==
    LET Whole(r) == IF r.ok /\ SkipWs(t, r.j) > Len(t) THEN r ELSE Fail
    IN  Whole(ParseValue(t, SkipWs(t, 1)))

(***************************************************************************)
(* extract_json                                                            *)
(***************************************************************************)
\* str.strip()
Strip(t) ==
    LET keep == {i \in DOMAIN t : t[i] \notin WS}
    IN  IF keep = {} THEN <<>>
        ELSE SubSeq(t, Min(keep), CHOOSE x \in keep : \A y \in keep : y <= x)

\* str.replace(pat, ""): delete the occurrences of pat, left to right, non-overlapping
RECURSIVE Delete(_, _)
Delete(t, pat) ==
    LET n    == Len(pat)
        hits == {i \in 1..(Len(t) - n + 1) : SubSeq(t, i, i + n - 1) = pat}
    IN  IF hits = {} THEN t
        ELSE LET h == Min(hits)
             IN  SubSeq(t, 1, h - 1) \o Delete(SubSeq(t, h + n, Len(t)), pat)

\* text.strip(), then replace(fence + "json", ""), then replace(fence, ""), the fence
\* being three backquotes
Normalize(t) == Delete(Delete(Strip(t), <<BT, BT, BT, "json">>), <<BT, BT, BT>>)

\* re.findall of the non-greedy brace-or-bracket pattern, scanning from index i: at an
\* opening brace the match runs to the first closing brace after it (to the first closing
\* bracket for an opening bracket); an opener with no closer after it is passed over
RECURSIVE FindAll(_, _)
FindAll(t, i) ==
    LET o == Min({j \in i..(Len(t) + 1) : j = Len(t) + 1 \/ t[j] \in {LB, LK}})
    IN  IF o > Len(t) THEN <<>>
        ELSE LET c == IndexFrom(t, IF t[o] = LB THEN RB ELSE RK, o + 1)
             IN  IF c > Len(t) THEN FindAll(t, o + 1)
                 ELSE <<SubSeq(t, o, c)>> \o FindAll(t, c + 1)

\* the loop over json_matches: dicts are appended, lists extended, failures skipped
RECURSIVE Collect(_)
Collect(blocks) ==
    IF blocks = <<>> THEN <<>>
    ELSE LET Parsed(r) == IF ~r.ok THEN <<>>
                          ELSE IF r.v.t = "obj" THEN <<r.v>>
                          ELSE IF r.v.t = "arr" THEN r.v.a
                          ELSE <<>>
         IN  Parsed(json_loads(Head(blocks))) \o Collect(Tail(blocks))

\* extract_json(text): [res, diag]; diag is TRUE when "JSON extraction failed" is printed
extract_json(t) ==
    LET Matched(json_matches) ==
            IF json_matches = <<>>
            THEN [res |-> <<>>, diag |-> TRUE]
            ELSE [res |-> Collect(json_matches), diag |-> FALSE]
    IN  Matched(FindAll(Normalize(t), 1))

(***************************************************************************)
(* validate_output                                                         *)
(***************************************************************************)
\* str.lower() of an atom; atoms without upper-case letters are unchanged
LowerTok(x) ==
    CASE x \in {"MM", "Mm", "mM"} -> "mm"
      [] x \in {"CM", "Cm"}       -> "cm"
      [] x = "Length"    -> "length"
      [] x = "Width"     -> "width"
      [] x = "Height"    -> "height"
      [] x = "Diameter"  -> "diameter"
      [] x = "Radius"    -> "radius"
      [] x = "Thickness" -> "thickness"
      [] x = "Angle"     -> "angle"
      [] x = "Depth"     -> "depth"
      [] OTHER           -> x

Lower(s) == [i \in DOMAIN s |-> LowerTok(s[i])]

\* isinstance(v, (float, int)); bool is a subclass of int
IsNumber(v) == v.t \in {"num", "bool"}

\* field in json_output; for a str it is a substring test, for a list a membership test
Contains(v, x) ==
    CASE v.t = "obj" -> K(x) \in DOMAIN v.f
      [] v.t = "str" -> x \in Range(v.s)
      [] v.t = "arr" -> S1(x) \in Range(v.a)
      [] OTHER       -> FALSE

\* the in operator raises TypeError on these
NotIterable(v) == v.t \in {"num", "bool", "null"}

required_base_fields == <<"part", "feature", "parameter", "unit", "confidence">>

allowed_features ==
    {"Extrude1", "Revolve1", "Cut1", "Fillet1", "Chamfer1", "Shell1", "Sweep1",
     "Loft1", "Mirror1", "Pattern1", "Draft1", "Hole1", "Thicken1", "Wrap1"}

\* the outcome of one call: res is "True", "False" or "raise" (an exception leaves the
\* call); msgs are the diagnostics printed, in order
Out(res, msgs) == [res |-> res, msgs |-> msgs]
Msg(m) == [m |-> m, d |-> <<>>]

\* [field for field in required_base_fields if field not in json_output]
missing_fields(v) ==
    LET RECURSIVE Sel(_)
        Sel(i) == IF i > Len(required_base_fields) THEN <<>>
                  ELSE (IF Contains(v, required_base_fields[i]) THEN <<>>
                        ELSE <<required_base_fields[i]>>) \o Sel(i + 1)
    IN  Sel(1)

\* the comparison without .lower()
UnitOk_exact(unit) == unit.s = <<"mm">>

\* json_output["unit"].lower() != "mm" is the rejection; unit is a str here
UnitOk(unit) == Lower(unit.s) = <<"mm">>

\* isinstance(confidence, (float, int)) and 0 <= confidence <= 1
ConfidenceOk(confidence) ==
    IsNumber(confidence) /\ 0 <= confidence.n /\ confidence.n <= 10

\* the exclusivity test left out
BothPresent_unchecked(v) == FALSE

\* has_new_value and has_delta
BothPresent(v) == Contains(v, "new_value") /\ Contains(v, "delta")

\* not has_new_value and not has_delta
NeitherPresent(v) == ~Contains(v, "new_value") /\ ~Contains(v, "delta")

\* no feature test, as in the older script
FeatureOk_unchecked(feature) == TRUE

\* json_output["feature"] in allowed_features
FeatureOk(feature) ==
    feature.t = "str" /\ \E a \in allowed_features : feature.s = <<a>>

\* the checks that follow the presence checks, in the order of the code: unit,
\* confidence, new_value/delta, and (pipeline converter only) feature
ValueChecks(v, featureCheck) ==
    IF v.f[K("unit")].t # "str" THEN Out("raise", <<>>)
    ELSE IF ~UnitOk(v.f[K("unit")]) THEN Out("False", <<Msg("unit")>>)
    ELSE IF ~ConfidenceOk(v.f[K("confidence")]) THEN Out("False", <<Msg("confidence")>>)
    ELSE IF BothPresent(v) THEN Out("False", <<Msg("both")>>)
    ELSE IF NeitherPresent(v) THEN Out("False", <<Msg("neither")>>)
    ELSE IF Contains(v, "new_value") /\ ~IsNumber(v.f[K("new_value")])
         THEN Out("False", <<Msg("new_value")>>)
    ELSE IF Contains(v, "delta") /\ ~IsNumber(v.f[K("delta")])
         THEN Out("False", <<Msg("delta")>>)
    ELSE IF featureCheck /\ ~FeatureOk(v.f[K("feature")])
         THEN Out("False", <<Msg("feature")>>)
    ELSE Out("True", IF featureCheck THEN <<Msg("passed")>> ELSE <<>>)

\* the error test placed after the required-field test
validate_output_fields_first(v) ==
    IF NotIterable(v) THEN Out("raise", <<>>)
    ELSE LET Present(missing) ==
                 IF missing # <<>> THEN Out("False", <<[m |-> "missing", d |-> missing]>>)
                 ELSE IF v.t # "obj" THEN Out("raise", <<>>)
                 ELSE IF Contains(v, "error") THEN Out("False", <<Msg("error")>>)
                 ELSE ValueChecks(v, TRUE)
         IN  Present(missing_fields(v))

\* validate_output of the pipeline converter (updation_pipeline/qwen_bot/text_2_JSON.py)
validate_output(v) ==
    IF NotIterable(v) THEN Out("raise", <<>>)
    ELSE IF Contains(v, "error")
         THEN (IF v.t = "obj" THEN Out("False", <<Msg("error")>>) ELSE Out("raise", <<>>))
    ELSE LET Present(missing) ==
                 IF missing # <<>> THEN Out("False", <<[m |-> "missing", d |-> missing]>>)
                 ELSE IF v.t # "obj" THEN Out("raise", <<>>)
                 ELSE ValueChecks(v, TRUE)
         IN  Present(missing_fields(v))

\* validate_output of the older script (text_2_JSON.py): no error check, the first
\* missing field only, no feature check
validate_output_script(v) ==
    IF NotIterable(v) THEN Out("raise", <<>>)
    ELSE LET Present(missing) ==
                 IF missing # <<>>
                 THEN Out("False", <<[m |-> "missing", d |-> <<Head(missing)>>]>>)
                 ELSE IF v.t # "obj" THEN Out("raise", <<>>)
                 ELSE ValueChecks(v, FALSE)
         IN  Present(missing_fields(v))

(***************************************************************************)
(* The converter process: process_cad_instruction and main of              *)
(* updation_pipeline/qwen_bot/text_2_JSON.py, and what they print.         *)
(* Standard output is a sequence of lines, each a token sequence.          *)
(***************************************************************************)
\* str.split('\n'): line k lies between the (k-1)-th and the k-th newline
SplitLines(t) ==
    LET nls    == {i \in DOMAIN t : t[i] = NL}
        nth(k) == IF k = 0 THEN 0
                  ELSE IF k > Cardinality(nls) THEN Len(t) + 1
                  ELSE CHOOSE i \in nls : Cardinality({j \in nls : j < i}) = k - 1
    IN  [k \in 1..(Cardinality(nls) + 1) |-> SubSeq(t, nth(k - 1) + 1, nth(k) - 1)]

\* the keys of the model's objects, in the order json.dumps writes them
KeyOrder == <<"part", "feature", "parameter", "new_value", "delta", "unit",
              "confidence", "error", "a", "b">>

KeysOf(f) == SelectSeq(KeyOrder, LAMBDA k : K(k) \in DOMAIN f)

\* indent=2: two spaces for each level
Pad(ind) == [i \in 1..(2 * ind) |-> SP]

\* lines with pre put before the first and post after the last
Wrap(pre, lines, post) ==
    [i \in DOMAIN lines |->
        (IF i = 1 THEN pre ELSE <<>>) \o lines[i] \o (IF i = Len(lines) THEN post ELSE <<>>)]

\* json.dumps(v, indent=2) as lines; the first line carries no indentation of its own
RECURSIVE DumpLines(_, _)
DumpLines(v, ind) ==
    LET RECURSIVE Elems(_)
        Elems(i) == IF i > Len(v.a) THEN <<>>
                    ELSE Wrap(Pad(ind + 1), DumpLines(v.a[i], ind + 1),
                              IF i < Len(v.a) THEN <<CM>> ELSE <<>>) \o Elems(i + 1)
        keys == KeysOf(v.f)
        RECURSIVE Members(_)
        Members(i) == IF i > Len(keys) THEN <<>>
                      ELSE Wrap(Pad(ind + 1) \o <<QT, keys[i], QT, CL, SP>>,
                                DumpLines(v.f[K(keys[i])], ind + 1),
                                IF i < Len(keys) THEN <<CM>> ELSE <<>>) \o Members(i + 1)
    IN  CASE v.t = "str"  -> << <<QT>> \o v.s \o <<QT>> >>
          [] v.t = "num"  -> << <<NumText(v.n)>> >>
          [] v.t = "bool" -> << <<IF v.n = 0 THEN "false" ELSE "true">> >>
          [] v.t = "null" -> << <<"null">> >>
          [] v.t = "arr"  -> IF v.a = <<>> THEN << <<LK, RK>> >>
                             ELSE << <<LK>> >> \o Elems(1) \o << Pad(ind) \o <<RK>> >>
          [] v.t = "obj"  -> IF DOMAIN v.f = {} THEN << <<LB, RB>> >>
                             ELSE << <<LB>> >> \o Members(1) \o << Pad(ind) \o <<RB>> >>

\* str(v) inside an f-string: a str is written as it is; the repr of a dict or a list is
\* written in one line between its braces or brackets
PyStr(v) ==
    CASE v.t = "str"  -> v.s
      [] v.t = "num"  -> <<NumText(v.n)>>
      [] v.t = "bool" -> <<IF v.n = 0 THEN "False" ELSE "True">>
      [] v.t = "null" -> <<"None">>
      [] v.t = "arr"  -> <<LK, "...", RK>>
      [] v.t = "obj"  -> <<LB, "...", RB>>

\* the line that validate_output prints for a diagnostic on json_output
MsgLine(msg, v) ==
    CASE msg.m = "error"      -> <<"Model returned error:", SP>> \o PyStr(v.f[K("error")])
      [] msg.m = "unit"       -> <<"Invalid unit", SP>> \o PyStr(v.f[K("unit")])
      [] msg.m = "confidence" -> <<"Invalid confidence", SP>> \o PyStr(v.f[K("confidence")])
      [] msg.m = "feature"    -> <<"Invalid feature", SP>> \o PyStr(v.f[K("feature")])
      [] OTHER                -> <<msg.m>>

MsgLines(msgs, v) == [i \in DOMAIN msgs |-> MsgLine(msgs[i], v)]

\* the validation loop of process_cad_instruction over responses[i..]: valid holds the
\* accepted records, out the lines printed; an exception of validate_output leaves the
\* loop for the except clause, which prints and returns None
RECURSIVE ValidateLoop(_, _, _, _)
ValidateLoop(responses, i, valid, out) ==
    IF i > Len(responses)
    THEN [ret |-> valid, out |-> out]
    ELSE LET Step(json_output, r, shown) ==
                 CASE r.res = "raise" ->
                        [ret |-> <<>>, out |-> shown \o << <<"Error processing instruction">> >>]
                   [] r.res = "True" ->
                        ValidateLoop(responses, i + 1, Append(valid, json_output), shown)
                   [] r.res = "False" ->
                        ValidateLoop(responses, i + 1, valid,
                                     shown \o << <<"JSON # failed validation">> >>)
             Validated(json_output, r) ==
                 Step(json_output, r,
                      out \o << <<>>, <<"Validating JSON #">> >> \o DumpLines(json_output, 0)
                          \o MsgLines(r.msgs, json_output))
         IN  Validated(responses[i], validate_output(responses[i]))

\* the test of the extraction result left out: an empty result goes on to the loop
process_cad_instruction_unchecked(model_output) ==
    IF Strip(model_output) = <<>>
    THEN [ret |-> <<>>, out |-> << <<"Empty response from model">> >>]
    ELSE LET Printed(x) ==
                 ValidateLoop(x.res, 1, <<>>,
                              IF x.diag THEN << <<"JSON extraction failed">> >> ELSE <<>>)
         IN  Printed(extract_json(model_output))

\* process_cad_instruction, given the text run_ollama returned.  ret is the returned
\* list; the empty sequence stands for None (the function never returns an empty list)
process_cad_instruction(model_output) ==
    IF Strip(model_output) = <<>>
    THEN [ret |-> <<>>, out |-> << <<"Empty response from model">> >>]
    ELSE LET Extracted(responses, d) ==
                 IF responses = <<>>
                 THEN [ret |-> <<>>,
                       out |-> d \o << <<"No valid JSON found in response">> >>
                                 \o SplitLines(<<"Raw response:", SP>> \o model_output)]
                 ELSE ValidateLoop(responses, 1, <<>>, d)
             Printed(x) ==
                 Extracted(x.res, IF x.diag THEN << <<"JSON extraction failed">> >> ELSE <<>>)
         IN  Printed(extract_json(model_output))

\* the lines main() prints for its results
RECURSIVE ResultLines(_, _)
ResultLines(results, i) ==
    IF i > Len(results) THEN <<>>
    ELSE << <<>>, <<"Result #">> >> \o DumpLines(results[i], 0) \o ResultLines(results, i + 1)

\* standard output of the converter run on "<instruction>\nexit\n"
converter_stdout(model_output) ==
    LET Session(p) ==
            << <<"CAD Instruction to JSON Converter">>,
               <<"Type your instruction (or 'exit' to quit)">>, <<>>,
               <<"Instruction:", SP>>, <<"Processing">> >>
            \o p.out
            \o (IF p.ret # <<>>
                THEN << <<>>, <<"Successfully parsed instruction(s)">> >>
                     \o ResultLines(p.ret, 1)
                ELSE << <<>>, <<"Failed to parse instruction">> >>)
            \o << <<>>, <<"=====">>, <<"Instruction:", SP, "Goodbye!">>, <<>> >>
    IN  Session(process_cad_instruction(model_output))

(***************************************************************************)
(* IntegratedFusionGenerator.text_to_json and manual_json_input            *)
(***************************************************************************)
\* first pass: the lines that are one complete JSON document between braces
WholeLineObjects(lines) ==
    LET Loaded(r) == IF r.ok THEN <<r.v>> ELSE <<>>
        Line(line) == IF line # <<>> /\ Head(line) = LB /\ line[Len(line)] = RB
                      THEN Loaded(json_loads(line)) ELSE <<>>
    IN  Flatten([i \in DOMAIN lines |-> Line(Strip(lines[i]))])

\* second pass: a line with "{" sets in_json and restarts json_content, every line
\* read while in_json is appended (stripped), and a line with "}" read while in_json
\* ends the block: json_content is parsed and in_json cleared, parsed or not.
\* Hence at line i the block began at the last line up to i that has a "{", and
\* in_json still holds there iff no line from that one to i-1 has a "}"
BlockStart(lines, i) ==
    LET opens == {j \in 1..i : LB \in Range(lines[j])}
    IN  IF opens = {} THEN 0 ELSE CHOOSE j \in opens : \A k \in opens : k <= j

BlockEndsAt(lines, i) ==
    LET Open(first) == first # 0 /\ \A k \in first..(i - 1) : RB \notin Range(lines[k])
    IN  RB \in Range(lines[i]) /\ Open(BlockStart(lines, i))

BlockObjects(lines) ==
    LET Loaded(r) == IF r.ok THEN <<r.v>> ELSE <<>>
        json_content(first, last) ==
            Flatten([k \in 1..(last - first + 1) |-> Strip(lines[first + k - 1])])
    IN  Flatten([i \in DOMAIN lines |->
                    IF BlockEndsAt(lines, i)
                    THEN Loaded(json_loads(json_content(BlockStart(lines, i), i)))
                    ELSE <<>>])

\* the part of text_to_json that reads the converter's standard output; the empty
\* sequence stands for None
parse_converter_output(output_lines) ==
    LET Found(json_objects) ==
            IF json_objects # <<>> THEN json_objects ELSE BlockObjects(output_lines)
    IN  Found(WholeLineObjects(output_lines))

\* text_to_json: conv is how the converter process ended
text_to_json(conv, model_output) ==
    IF conv = "ok" THEN parse_converter_output(converter_stdout(model_output))
    ELSE <<>>

\* manual_json_input on the line the operator typed; the empty sequence stands for
\* None as well as for an empty list (the caller tests "if not instruction_list")
manual_json_input(json_input) ==
    LET Parsed(r) == IF ~r.ok THEN <<>>
                     ELSE IF r.v.t = "obj" THEN <<r.v>>
                     ELSE IF r.v.t = "arr" THEN r.v.a
                     ELSE <<>>
    IN  Parsed(json_loads(Strip(json_input)))

(***************************************************************************)
(* IntegratedFusionGenerator.create_enhanced_search_query                  *)
(***************************************************************************)
feature_mapping(x) ==
    CASE x = "Extrude1" -> <<"extrude">>
      [] x = "Revolve1" -> <<"revolve", "sphere">>
      [] x = "Cut1"     -> <<"cut">>
      [] x = "Fillet1"  -> <<"fillet">>
      [] x = "Chamfer1" -> <<"chamfer">>
      [] x = "Shell1"   -> <<"shell", "hollow">>
      [] x = "Sweep1"   -> <<"sweep">>
      [] x = "Loft1"    -> <<"loft">>
      [] x = "Mirror1"  -> <<"mirror">>
      [] x = "Pattern1" -> <<"pattern">>
      [] x = "Draft1"   -> <<"draft">>
      [] x = "Hole1"    -> <<"hole">>
      [] x = "Thicken1" -> <<"thicken">>
      [] x = "Wrap1"    -> <<"wrap">>
      [] OTHER          -> <<>>

parameter_mapping(x) ==
    CASE x = "Length"    -> <<"length", "height">>
      [] x = "Width"     -> <<"width">>
      [] x = "Height"    -> <<"height", "length">>
      [] x = "Diameter"  -> <<"diameter", "circle">>
      [] x = "Radius"    -> <<"radius", "circle">>
      [] x = "Thickness" -> <<"thickness">>
      [] x = "Angle"     -> <<"angle">>
      [] OTHER           -> <<>>

\* Python truth value of a JSON value
Truthy(v) ==
    CASE v.t = "str"  -> v.s # <<>>
      [] v.t = "num"  -> v.n # 0
      [] v.t = "bool" -> v.n # 0
      [] v.t = "null" -> FALSE
      [] v.t = "arr"  -> v.a # <<>>
      [] v.t = "obj"  -> DOMAIN v.f # {}

\* dict.get(key, default)
Get(v, key, default) == IF K(key) \in DOMAIN v.f THEN v.f[K(key)] ELSE default

\* the terms of a mapping, as strings
Terms(atoms) == [i \in DOMAIN atoms |-> <<atoms[i]>>]

\* the terms kept as they are, duplicates included
Unique_all(terms, seen) == terms

\* remove duplicates while preserving order
RECURSIVE Unique(_, _)
Unique(terms, seen) ==
    IF terms = <<>> THEN <<>>
    ELSE IF Head(terms) \in seen THEN Unique(Tail(terms), seen)
    ELSE <<Head(terms)>> \o Unique(Tail(terms), seen \cup {Head(terms)})

\* ' '.join(terms)
Join(terms) ==
    Flatten([i \in DOMAIN terms |-> IF i < Len(terms) THEN terms[i] \o <<SP>> ELSE terms[i]])

\* the unique terms before the cut to five
search_terms(v) ==
    LET part      == Get(v, "part", JStr(<<>>))
        parameter == Get(v, "parameter", JStr(<<>>))
        feature   == Get(v, "feature", JStr(<<>>))
    IN  Unique((IF Truthy(part) THEN <<part.s>> ELSE <<>>)
               \o (IF Truthy(parameter)
                   THEN <<Lower(parameter.s)>>
                        \o (IF Len(parameter.s) = 1
                            THEN Terms(parameter_mapping(parameter.s[1])) ELSE <<>>)
                   ELSE <<>>)
               \o (IF feature.t = "str" /\ Len(feature.s) = 1
                   THEN Terms(feature_mapping(feature.s[1])) ELSE <<>>),
               {})

\* create_enhanced_search_query(instruction_json): [raised, q].  It raises when the
\* argument is no dict (no .get), when a truthy part or parameter is no str (.lower,
\* set membership or join fail) and when feature is unhashable
create_enhanced_search_query(v) ==
    IF v.t # "obj" THEN [raised |-> TRUE, q |-> <<>>]
    ELSE LET part      == Get(v, "part", JStr(<<>>))
             parameter == Get(v, "parameter", JStr(<<>>))
             feature   == Get(v, "feature", JStr(<<>>))
         IN  IF \/ Truthy(part) /\ part.t # "str"
                \/ Truthy(parameter) /\ parameter.t # "str"
                \/ feature.t \in {"arr", "obj"}
             THEN [raised |-> TRUE, q |-> <<>>]
             ELSE LET Cut(unique_terms) ==
                          SubSeq(unique_terms, 1, IF Len(unique_terms) < MaxTerms
                                                  THEN Len(unique_terms) ELSE MaxTerms)
                  IN  [raised |-> FALSE, q |-> Join(Cut(search_terms(v)))]

(***************************************************************************)
(* search_database, format_search_results, generate_fusion_code,           *)
(* refine_generated_code                                                   *)
(***************************************************************************)
FENCE == <<BT, BT, BT>>

\* the decimal text of a small natural number
Digits(n) == <<"0", "1", "2", "3", "4", "5", "6", "7", "8", "9">>[n + 1]

\* a query whose failure is not caught: it hands on whatever the store holds
search_database_unguarded(store_ok, results) == results

\* search_database: the store answers with its result; any exception of the query gives
\* {"documents": [[]], "metadatas": [[]], "distances": [[]]}.  A result is
\* [documents, ranked]: the shape of results["documents"] ("none" for None, "empty" for
\* [], "lists" for a list holding one list) and the exemplars of its first list in the
\* store's ranking order
search_database(store_ok, results) ==
    IF store_ok THEN results ELSE [documents |-> "lists", ranked |-> <<>>]

\* the text block of exemplar i; an exemplar is [title, doc], the other metadata are
\* read with the same dict.get and printed on their own lines
ExampleBlock(i, ex) ==
    <<NL, "Example", SP, Digits(i), CL, NL,
      "Title", CL, SP, ex.title, NL,
      "Description", CL, SP, "description", NL,
      "Category", CL, SP, "category", NL,
      "Tags", CL, SP, "tags", NL,
      "Parameters", CL, SP, "parameters", NL,
      "Distance", CL, SP, "distance", NL, NL,
      "Code", CL, NL>> \o FENCE \o <<"python", NL>> \o ex.doc \o <<NL>> \o FENCE \o <<NL>>

PLACEHOLDER == <<"No relevant examples found.">>

\* the join of the example blocks alone, which is empty when there is none
format_search_results_joined(search_results) ==
    LET docs == search_results.ranked
        RECURSIVE Blocks(_)
        Blocks(i) == IF i > Len(docs) THEN <<>>
                     ELSE ExampleBlock(i, docs[i])
                          \o (IF i < Len(docs) THEN <<NL>> ELSE <<>>) \o Blocks(i + 1)
    IN  Blocks(1)

\* if search_results["documents"] and search_results["documents"][0]: one block per
\* exemplar; "\n".join(formatted_examples) if formatted_examples else the placeholder
format_search_results(search_results) ==
    LET docs == search_results.ranked
        RECURSIVE Blocks(_)
        Blocks(i) == IF i > Len(docs) THEN <<>>
                     ELSE ExampleBlock(i, docs[i])
                          \o (IF i < Len(docs) THEN <<NL>> ELSE <<>>) \o Blocks(i + 1)
    IN  IF search_results.documents = "lists" /\ docs # <<>> THEN Blocks(1) ELSE PLACEHOLDER

\* float(value) succeeds on numbers, booleans and numeric strings
FloatOk(v) == IsNumber(v) \/ (v.t = "str" /\ Len(v.s) = 1 /\ v.s[1] \in DOMAIN NumLex)

\* the loop of generate_fusion_code that runs before its try block: one
\* "param: value unit" entry per instruction; it raises on an instruction that is no
\* dict, on a parameter that is no str and on a new_value float() does not take
task_description(instruction_list) ==
    [i \in DOMAIN instruction_list |->
        LET instruction == instruction_list[i]
        IN  [param |-> Get(instruction, "parameter", JStr(<<>>)),
             value |-> Get(instruction, "new_value", JNum(0)),
             unit  |-> Get(instruction, "unit", S1("mm"))]]

task_raises(instruction_list) ==
    \E i \in DOMAIN instruction_list :
        \/ instruction_list[i].t # "obj"
        \/ Get(instruction_list[i], "parameter", JStr(<<>>)).t # "str"
        \/ ~FloatOk(Get(instruction_list[i], "new_value", JNum(0)))

\* main_part = instruction_list[0].get('part', 'object')
main_part(instruction_list) == Get(instruction_list[1], "part", S1("object"))

\* what generate_fusion_code prints when the call gives no text
generation_diagnostics(http, completion) ==
    CASE http = "timeout"    -> <<"Ollama request timed out">>
      [] http = "connection" -> <<"Cannot connect to Ollama - is it running?">>
      [] http = "500"        -> <<"Ollama API error: HTTP 500">>
      [] http = "200" /\ completion = <<>> -> <<"Empty response from Ollama">>
      [] OTHER               -> <<>>

\* a call that hands back a stub text when the service gave none
generate_fusion_code_stub(http, completion) ==
    IF http = "200" /\ completion # <<>> THEN completion ELSE <<"x">>

\* the text generate_fusion_code returns: the completion when the call answered 200,
\* "" after a timeout, a connection error, another status or any other exception
generate_fusion_code(http, completion) == IF http = "200" THEN completion ELSE <<>>

\* is pat a contiguous part of t
Within(t, pat) ==
    \E i \in 1..(Len(t) - Len(pat) + 1) : SubSeq(t, i, i + Len(pat) - 1) = pat

\* text.split(pat)[k] for k = 0 and k = 1: before the first pat, and between the first
\* and the second pat
FirstAt(t, pat) ==
    Min({i \in 1..(Len(t) + 1) :
            i = Len(t) + 1 \/ (i + Len(pat) - 1 <= Len(t) /\ SubSeq(t, i, i + Len(pat) - 1) = pat)})

Split0(t, pat) == SubSeq(t, 1, FirstAt(t, pat) - 1)

Split1(t, pat) ==
    Split0(SubSeq(t, FirstAt(t, pat) + Len(pat), Len(t)), pat)

\* "import adsk" in line
HasImportAdsk(line) ==
    \E i \in 1..(Len(line) - 2) :
        line[i] = "import" /\ line[i + 1] = SP /\ line[i + 2] \in {"adsk", "adsk.core", "adsk.fusion"}

\* a test for the stop definition that matches no line
HasStop_never(line) == FALSE

\* "def stop(context):" in line
HasStop(line) ==
    \E i \in 1..(Len(line) - 3) :
        line[i] = "def" /\ line[i + 1] = SP /\ line[i + 2] = "stop(context)" /\ line[i + 3] = CL

IMPORT_LINES == << <<"import", SP, "adsk.core", CM, SP, "adsk.fusion", CM, SP, "traceback">>, <<>> >>

STOP_LINES == << <<>>, <<"def", SP, "stop(context)", CL>>, <<SP, SP, SP, SP, "pass">> >>

\* '\n'.join(lines)
JoinLines(lines) ==
    Flatten([i \in DOMAIN lines |-> IF i < Len(lines) THEN lines[i] \o <<NL>> ELSE lines[i]])

\* a refinement that only trims the text
refine_generated_code_trimmed(raw_code) == Strip(raw_code)

\* refine_generated_code: the content of the fenced block if there is one, trimmed, with
\* the import lines put first and the stop definition put last where they are missing
refine_generated_code(raw_code) ==
    LET body  == IF Within(raw_code, FENCE \o <<"python">>)
                 THEN Split0(Split1(raw_code, FENCE \o <<"python">>), FENCE)
                 ELSE IF Within(raw_code, FENCE)
                 THEN Split0(Split1(raw_code, FENCE), FENCE)
                 ELSE raw_code
        has_imports(lines) ==
            \E i \in 1..(IF Len(lines) < 5 THEN Len(lines) ELSE 5) : HasImportAdsk(lines[i])
        WithImports(lines) == IF has_imports(lines) THEN lines ELSE IMPORT_LINES \o lines
        has_stop_function(lines) == \E i \in DOMAIN lines : HasStop(lines[i])
        WithStop(lines) == IF has_stop_function(lines) THEN lines ELSE lines \o STOP_LINES
    IN  JoinLines(WithStop(WithImports(SplitLines(Strip(body)))))

(***************************************************************************)
(* The inputs of the model                                                 *)
(***************************************************************************)
\* bounds of the model: candidates per ordinary model response, exemplars per answer
MaxCands == 2
MaxExemplars == 2

\* an edit record with the six schema fields
Rec(part, feature, parameter, key, value, unit, confidence) ==
    JObj((K("part") :> part) @@ (K("feature") :> feature) @@ (K("parameter") :> parameter)
         @@ (K(key) :> value) @@ (K("unit") :> unit) @@ (K("confidence") :> confidence))

ValidLength == Rec(S1("block"), S1("Extrude1"), S1("Length"), "new_value", JNum(500), S1("mm"), JNum(5))
ValidDelta  == Rec(S1("block"), S1("Extrude1"), S1("Width"), "delta", JNum(-1), S1("MM"), JNum(10))
BadUnit     == Rec(S1("block"), S1("Zed"), S1("Length"), "new_value", JNum(500), S1("cm"), JNum(15))
NumberUnit  == Rec(S1("block"), S1("Extrude1"), S1("Length"), "new_value", JNum(500), JNum(50), JNum(5))
TextValue   == Rec(S1("block"), S1("Extrude1"), S1("Length"), "new_value", S1("wide"), S1("mm"), JNum(5))
ErrorObject == JObj(K("error") :> S1("Invalid"))

\* what a model response or an operator may put where a record is expected
CandPool == {ValidLength, ValidDelta, BadUnit, NumberUnit, TextValue, ErrorObject,
             JObj(<<>>), JNum(10)}

SeqsUpTo(S, n) == UNION {[1..k -> S] : k \in 0..n}

\* the JSON text of a value, as json.dumps(indent=2) writes it
TextOf(v) == JoinLines(DumpLines(v, 0))

\* the JSON text of a value written on one line (what json.dumps writes without indent)
RECURSIVE TextOfLine(_)
TextOfLine(v) ==
    LET RECURSIVE Elems(_)
        Elems(i) == IF i > Len(v.a) THEN <<>>
                    ELSE TextOfLine(v.a[i]) \o (IF i < Len(v.a) THEN <<CM, SP>> ELSE <<>>)
                         \o Elems(i + 1)
        keys == KeysOf(v.f)
        RECURSIVE Members(_)
        Members(i) == IF i > Len(keys) THEN <<>>
                      ELSE <<QT, keys[i], QT, CL, SP>> \o TextOfLine(v.f[K(keys[i])])
                           \o (IF i < Len(keys) THEN <<CM, SP>> ELSE <<>>) \o Members(i + 1)
    IN  CASE v.t = "arr" -> <<LK>> \o Elems(1) \o <<RK>>
          [] v.t = "obj" -> <<LB>> \o Members(1) \o <<RB>>
          [] OTHER       -> DumpLines(v, 0)[1]

\* the candidates one after the other, each a JSON document of its own
RECURSIVE TextOfEach(_)
TextOfEach(cs) ==
    IF cs = <<>> THEN <<>> ELSE TextOf(Head(cs)) \o <<NL>> \o TextOfEach(Tail(cs))

Repeat(v, n) == [i \in 1..n |-> v]

\* the texts run_ollama may return to the converter
Responses ==
    {<<>>, <<SP, NL>>, <<"Sorry", SP, "no", SP, "idea">>}
    \cup {TextOf(JArr(cs)) : cs \in SeqsUpTo(CandPool, MaxCands)}
    \cup {<<"Here", SP, "it", SP, "is", NL>> \o TextOfEach(cs) : cs \in SeqsUpTo(CandPool, MaxCands)}
    \cup {TextOf(JArr(Repeat(ValidLength, n))) : n \in {MaxBatch, MaxBatch + 1}}

\* how the converter process may end: normally, script not found, non-zero return
\* code, or the 30 s timeout
ConvOutcomes == {"ok", "missing", "nonzero", "timeout"}

\* the lines an operator may type at the manual fallback
ManualInputs ==
    {<<>>, <<"dunno">>, <<LK, RK>>, <<"5">>}
    \cup {TextOfLine(v) : v \in {ValidLength, BadUnit, TextValue, JNum(10),
                                 JArr(<<ValidLength, ValidDelta>>), JArr(<<JNum(10)>>),
                                 JArr(<<NumberUnit>>)}}

\* the exemplars of the store, and the answers it may give
Exemplars == {[title |-> "box", doc |-> <<"import", SP, "adsk.core">>],
              [title |-> "rod", doc |-> <<"def", SP, "run(context)", CL>>]}

StoreAnswers == {e \in SeqsUpTo(Exemplars, MaxExemplars) :
                    \A i, j \in DOMAIN e : i # j => e[i] # e[j]}

\* what the store query may return
StoreResults ==
    {[documents |-> "lists", ranked |-> e] : e \in StoreAnswers}
    \cup {[documents |-> "none", ranked |-> <<>>], [documents |-> "empty", ranked |-> <<>>]}

\* how the generation call may end
HttpOutcomes == {"200", "500", "timeout", "connection"}

RUN_LINE == <<"def", SP, "run(context)", CL, SP, "pass">>

\* the completions the generation service may answer with
Completions ==
    {<<>>,
     <<SP, NL>>,
     RUN_LINE,
     <<"Sure", CL, NL>> \o FENCE \o <<"python", NL>> \o IMPORT_LINES[1] \o <<NL>> \o RUN_LINE
         \o <<NL>> \o FENCE \o <<NL, "Done">>,
     FENCE \o <<NL>> \o RUN_LINE \o <<NL>> \o STOP_LINES[2] \o <<SP, "pass", NL>> \o FENCE}

(***************************************************************************)
(* State                                                                   *)
(***************************************************************************)
VARIABLES
    pc,               \* the stage of the run of process_text_instruction
    response,         \* the text the model returned to the converter
    conv,             \* how the converter process ended
    responses,        \* the converter's candidates (extract_json's result)
    valid_responses,  \* what process_cad_instruction returned in the converter
    instruction_list, \* the batch of the run
    origin,           \* where the batch came from: "auto", "manual" or "none"
    enhanced_query,   \* the retrieval query
    context,          \* the formatted retrieval context
    request,          \* the task description of the generation request
    raw_code,         \* the text generate_fusion_code returned
    result,           \* the code process_text_instruction returned
    search_results,   \* what search_database returned
    http,             \* how the generation call ended
    out,              \* the diagnostics the run printed
    json_output,      \* the candidate given to validate_output
    verdict,          \* the outcome of validate_output of the pipeline converter
    verdict_script,   \* the outcome of validate_output of the older script
    text,             \* the text given to extract_json
    embedded,         \* the JSON values the text was built around
    extracted         \* the outcome of extract_json

runVars == <<pc, response, conv, responses, valid_responses, instruction_list, origin,
             enhanced_query, context, request, raw_code, result, search_results, http,
             out>>
valVars == <<json_output, verdict, verdict_script>>
extVars == <<text, embedded, extracted>>
vars == <<runVars, valVars, extVars>>

NotYet == Out("none", <<>>)

\* nothing retrieved, nothing requested, nothing printed
Quiet == /\ search_results = [documents |-> "unset", ranked |-> <<>>]
         /\ http = "none"
         /\ out = <<>>

RunIdle == /\ pc = "IDLE"
           /\ response = <<>>
           /\ conv = "none"
           /\ responses = <<>>
           /\ valid_responses = <<>>
           /\ instruction_list = <<>>
           /\ origin = "none"
           /\ enhanced_query = <<>>
           /\ context = <<>>
           /\ request = <<>>
           /\ raw_code = <<>>
           /\ result = <<>>
           /\ Quiet

ValIdle == /\ json_output = JNull
           /\ verdict = NotYet
           /\ verdict_script = NotYet

ExtIdle == /\ text = <<>>
           /\ embedded = [form |-> "none", values |-> <<>>, plain |-> TRUE]
           /\ extracted = [res |-> <<>>, diag |-> FALSE, done |-> FALSE]

(***************************************************************************)
(* One run of IntegratedFusionGenerator.process_text_instruction           *)
(***************************************************************************)
Init ==
    /\ pc = "SUBMITTED"
    /\ response = <<>>
    /\ conv = "none"
    /\ responses = <<>>
    /\ valid_responses = <<>>
    /\ instruction_list = <<>>
    /\ origin = "none"
    /\ enhanced_query = <<>>
    /\ context = <<>>
    /\ request = <<>>
    /\ raw_code = <<>>
    /\ result = <<>>
    /\ Quiet
    /\ ValIdle
    /\ ExtIdle

\* a test that sends every run to the manual input
NeedsManual_always(batch) == TRUE

\* if not instruction_list
NeedsManual(batch) == batch = <<>>

\* Step 1: instruction_list = self.text_to_json(text_instruction).  The converter runs
\* run_ollama, extract_json and the validation loop, and prints; text_to_json reads
\* what it printed
Convert ==
    /\ pc = "SUBMITTED"
    /\ \E c \in ConvOutcomes, r \in Responses :
          /\ c # "ok" => r = <<>>
          /\ conv' = c
          /\ response' = r
          /\ responses' = IF c = "ok" /\ Strip(r) # <<>> THEN extract_json(r).res ELSE <<>>
          /\ valid_responses' = IF c = "ok" THEN process_cad_instruction(r).ret ELSE <<>>
          /\ \E batch \in {text_to_json(c, r)} :
                /\ instruction_list' = batch
                /\ origin' = IF batch # <<>> THEN "auto" ELSE "none"
                /\ IF NeedsManual(batch)
                   THEN /\ pc' = "FALLBACK_MANUAL"
                        /\ out' = <<"Text-to-JSON conversion failed, trying manual input...">>
                   ELSE /\ pc' = "QUERY_SYNTH"
                        /\ out' = out
    /\ UNCHANGED <<enhanced_query, context, request, raw_code, result, search_results, http,
                   valVars, extVars>>

\* if not instruction_list: instruction_list = self.manual_json_input(...), which asks
\* with input("JSON: "); a second failure returns None
ManualInput ==
    /\ pc = "FALLBACK_MANUAL"
    /\ \E m \in ManualInputs :
          \E batch \in {manual_json_input(m)} :
             /\ instruction_list' = batch
             /\ origin' = IF batch # <<>> THEN "manual" ELSE "none"
             /\ pc' = IF batch # <<>> THEN "QUERY_SYNTH" ELSE "FAILED"
             /\ out' = out \o <<"JSON: ">>
                           \o (IF batch # <<>> THEN <<>> ELSE <<"Failed to get JSON instruction">>)
    /\ UNCHANGED <<response, conv, responses, valid_responses, enhanced_query, context,
                   request, raw_code, result, search_results, http, valVars, extVars>>

\* Step 2: enhanced_query = self.create_enhanced_search_query(instruction_list[0]); an
\* exception leaves process_text_instruction
QuerySynth ==
    /\ pc = "QUERY_SYNTH"
    /\ \E q \in {create_enhanced_search_query(instruction_list[1])} :
          /\ enhanced_query' = q.q
          /\ pc' = IF q.raised THEN "RAISED" ELSE "RETRIEVING"
    /\ UNCHANGED <<response, conv, responses, valid_responses, instruction_list, origin,
                   context, request, raw_code, result, search_results, http, out, valVars,
                   extVars>>

\* search_database and format_search_results; the query either raises or returns the
\* store's result
Retrieve ==
    /\ pc = "RETRIEVING"
    /\ \E store_ok \in BOOLEAN, results \in StoreResults :
          /\ search_results' = search_database(store_ok, results)
          /\ context' = format_search_results(search_database(store_ok, results))
          /\ out' = out \o (IF store_ok THEN <<>> ELSE <<"Error searching database">>)
    /\ pc' = "GENERATING"
    /\ UNCHANGED <<response, conv, responses, valid_responses, instruction_list, origin,
                   enhanced_query, request, raw_code, result, http, valVars, extVars>>

\* a run that calls the generation again when it gave no text
AfterGeneration_retry(generated) == IF generated = <<>> THEN "GENERATING" ELSE "REFINING"

\* if not raw_code: return None; otherwise the run goes on to the refinement
AfterGeneration(generated) == IF generated = <<>> THEN "FAILED" ELSE "REFINING"

\* Step 3: raw_code = self.generate_fusion_code(instruction_list, formatted_results);
\* "if not raw_code: return None"
Generate ==
    /\ pc = "GENERATING"
    /\ IF task_raises(instruction_list)
       THEN /\ pc' = "RAISED"
            /\ UNCHANGED <<request, raw_code, http, out>>
       ELSE \E h \in HttpOutcomes, c \in Completions :
               /\ h # "200" => c = <<>>
               /\ http' = h
               /\ request' = [main_part |-> main_part(instruction_list),
                              task |-> task_description(instruction_list),
                              examples |-> context]
               /\ raw_code' = generate_fusion_code(h, c)
               /\ pc' = AfterGeneration(generate_fusion_code(h, c))
               /\ out' = out \o generation_diagnostics(h, c)
                             \o (IF generate_fusion_code(h, c) = <<>>
                                 THEN <<"Failed to generate code">> ELSE <<>>)
    /\ UNCHANGED <<response, conv, responses, valid_responses, instruction_list, origin,
                   enhanced_query, context, result, search_results, valVars, extVars>>

\* Step 4: refined_code = self.refine_generated_code(raw_code); return refined_code
Refine ==
    /\ pc = "REFINING"
    /\ result' = refine_generated_code(raw_code)
    /\ pc' = "DONE"
    /\ out' = out \o <<"Code generation complete!">>
    /\ UNCHANGED <<response, conv, responses, valid_responses, instruction_list, origin,
                   enhanced_query, context, request, raw_code, search_results, http, valVars,
                   extVars>>

Next == Convert \/ ManualInput \/ QuerySynth \/ Retrieve \/ Generate \/ Refine

Spec == Init /\ [][Next]_vars

(***************************************************************************)
(* validate_output applied to one candidate                                *)
(***************************************************************************)
Absent == [t |-> "absent", s |-> <<>>, n |-> 0, f |-> <<>>, a |-> <<>>]

\* the object with the members whose value is not Absent
ObjOf(members) ==
    JObj([k \in {K(x) : x \in {y \in DOMAIN members : members[y] # Absent}} |-> members[k[1]]])

PartValues    == {Absent, S1("block")}
FeatureValues == {Absent, S1("Extrude1"), S1("Wrap1"), S1("Zed"), S1("extrude1"), JNum(10)}
ParamValues   == {Absent, S1("Length")}
UnitValues    == {Absent, S1("mm"), S1("MM"), S1("Mm"), S1("mM"), S1("cm"), S1("mmm"),
                  JStr(<<>>), JNum(50), JNull}
ConfValues    == {Absent, JNum(0), JNum(5), JNum(10), JNum(15), JNum(-1), S1("0.5"),
                  JBool(TRUE), JNull}
NewValues     == {Absent, JNum(500), S1("50")}
DeltaValues   == {Absent, JNum(-1), JNull}
ErrorValues   == {Absent, S1("Invalid")}

\* the candidates: every combination of the field values, each enumerated feature in
\* an otherwise valid record, and the candidates that are no object
Candidates ==
    {ObjOf([part |-> p, feature |-> f, parameter |-> q, unit |-> u, confidence |-> c,
            new_value |-> nv, delta |-> d, error |-> e]) :
        p \in PartValues, f \in FeatureValues, q \in ParamValues, u \in UnitValues,
        c \in ConfValues, nv \in NewValues, d \in DeltaValues, e \in ErrorValues}
    \cup {Rec(S1("block"), S1(f), S1("Length"), "new_value", JNum(500), S1("mm"), JNum(5)) :
            f \in allowed_features}
    \cup {JNum(10), JNull, JBool(TRUE), S1("error"), S1("part"), JArr(<<S1("error")>>),
          JArr(<<ValidLength>>)}

InitV ==
    /\ RunIdle
    /\ ExtIdle
    /\ json_output \in Candidates
    /\ verdict = NotYet
    /\ verdict_script = NotYet

Validate ==
    /\ pc = "IDLE"
    /\ verdict = NotYet
    /\ verdict' = validate_output(json_output)
    /\ verdict_script' = validate_output_script(json_output)
    /\ UNCHANGED <<json_output, runVars, extVars>>

NextV == Validate

SpecV == InitV /\ [][NextV]_vars

(***************************************************************************)
(* extract_json applied to one text                                        *)
(***************************************************************************)
\* bound of the model: elements per embedded array
MaxElems == 2

\* string values: plain ones and ones that hold a brace or a bracket
StringValues == {<<"block">>, <<>>, <<"a", RB, "b">>, <<"x", RK, "y">>, <<"see", SP, LB>>}

\* flat objects: every value is a string or a number
FlatObjects ==
    {JObj(K("part") :> JStr(x)) : x \in StringValues}
    \cup {ValidLength, JObj((K("a") :> JNum(10)) @@ (K("b") :> S1("x")))}

\* prose without any brace or bracket, fenced or not
PlainBefore == {<<>>, <<"Sure", CL, SP>>, <<"Here", SP, "it", SP, "is", NL>>,
                <<NL, BT, BT, BT, "json", NL>>}
PlainAfter  == {<<>>, <<NL, "Done", SP>>, <<NL, BT, BT, BT, NL>>}

\* fragments with a brace or a bracket that are no JSON
BrokenBefore == {<<"set", SP, LB, "x", NL>>, <<"see", SP, LK, "note", SP>>,
                 <<LB, "oops", RB, SP>>, <<LK, "1", CM, RK, NL>>}
BrokenAfter  == {<<SP, LB, "oops", RB>>, <<NL, LB, QT, "a", QT, CL>>, <<SP, RB, RK>>}

\* the two ways json.dumps writes a value: over several lines (indent=2) or on one line
Styles == {"indent", "line"}
Written(style, v) == IF style = "indent" THEN TextOf(v) ELSE TextOfLine(v)

\* a text built around JSON values: form tells how the values are embedded, values are
\* the embedded objects in order of appearance, plain tells that the surrounding text
\* has no brace and no bracket
Embedding(form, values, plain, t) ==
    [form |-> form, values |-> values, plain |-> plain, text |-> t]

\* one flat object in prose
ObjectTexts ==
    {Embedding("object", <<v>>, TRUE, pre \o Written(st, v) \o post) :
        v \in FlatObjects, st \in Styles, pre \in PlainBefore, post \in PlainAfter}

\* one flat object next to a fragment that is no JSON
BrokenTexts ==
    {Embedding("object", <<v>>, FALSE, pre \o Written(st, v)) :
        v \in FlatObjects, st \in Styles, pre \in BrokenBefore}
    \cup {Embedding("object", <<v>>, FALSE, Written(st, v) \o post) :
            v \in FlatObjects, st \in Styles, post \in BrokenAfter}

\* one array of flat objects in prose
ArrayTexts ==
    {Embedding("array", a, TRUE, pre \o Written(st, JArr(a)) \o post) :
        a \in SeqsUpTo(FlatObjects, MaxElems), st \in Styles,
        pre \in PlainBefore, post \in PlainAfter}

\* an object, then an array, then an object
MixedTexts ==
    {Embedding("mixed", <<v>> \o a \o <<ValidDelta>>,
               TRUE, TextOfLine(v) \o <<NL>> \o TextOfLine(JArr(a)) \o <<SP, "and", SP>>
                     \o TextOf(ValidDelta)) :
        v \in FlatObjects, a \in SeqsUpTo(FlatObjects, MaxElems)}

\* an array with elements that are no objects
ScalarTexts ==
    {Embedding("scalars", a, TRUE, pre \o Written(st, JArr(a)) \o post) :
        a \in {<<JNum(10), ValidLength>>, <<ValidLength, S1("block")>>, <<JNull, ValidLength>>,
               <<JNum(10)>>, <<S1("block")>>},
        st \in Styles, pre \in PlainBefore, post \in PlainAfter}

\* no JSON at all
ProseTexts ==
    {Embedding("none", <<>>, t \in PlainBefore \cup PlainAfter, t) :
        t \in PlainBefore \cup PlainAfter \cup BrokenBefore \cup BrokenAfter}

ExtractInputs ==
    ObjectTexts \cup BrokenTexts \cup ArrayTexts \cup MixedTexts \cup ScalarTexts \cup ProseTexts

InitX ==
    /\ RunIdle
    /\ ValIdle
    /\ \E e \in ExtractInputs :
          /\ text = e.text
          /\ embedded = [form |-> e.form, values |-> e.values, plain |-> e.plain]
    /\ extracted = [res |-> <<>>, diag |-> FALSE, done |-> FALSE]

\* responses = extract_json(model_output)
Extract ==
    /\ pc = "IDLE"
    /\ ~extracted.done
    /\ \E x \in {extract_json(text)} :
          extracted' = [res |-> x.res, diag |-> x.diag, done |-> TRUE]
    /\ UNCHANGED <<text, embedded, runVars, valVars>>

NextX == Extract

SpecX == InitX /\ [][NextX]_vars

(***************************************************************************)
(* Properties of validate_output, stated on the candidate's own fields     *)
(***************************************************************************)
Judged == verdict # NotYet
Accepted == verdict.res = "True"
AcceptedScript == verdict_script.res = "True"

IsRecord == json_output.t = "obj"
HasField(x) == IsRecord /\ K(x) \in DOMAIN json_output.f
Field(x) == json_output.f[K(x)]

\* the enumeration of feature identifiers, and the spellings of the unit
Enumerated == {"Extrude1", "Revolve1", "Cut1", "Fillet1", "Chamfer1", "Shell1", "Sweep1",
               "Loft1", "Mirror1", "Pattern1", "Draft1", "Hole1", "Thicken1", "Wrap1"}
MmSpellings == {<<"mm">>, <<"MM">>, <<"Mm">>, <<"mM">>}

NoError     == ~HasField("error")
PartGood    == HasField("part")
ParamGood   == HasField("parameter")
FeatureGood == /\ HasField("feature")
               /\ Field("feature").t = "str"
               /\ \E a \in Enumerated : Field("feature").s = <<a>>
UnitGood    == HasField("unit") /\ Field("unit").t = "str" /\ Field("unit").s \in MmSpellings
ConfGood    == /\ HasField("confidence")
               /\ Field("confidence").t = "num"
               /\ 0 <= Field("confidence").n
               /\ Field("confidence").n <= 10
HasBoth     == HasField("new_value") /\ HasField("delta")
HasNeither  == IsRecord /\ ~HasField("new_value") /\ ~HasField("delta")
OneValueGood ==
    \/ HasField("new_value") /\ ~HasField("delta") /\ Field("new_value").t = "num"
    \/ HasField("delta") /\ ~HasField("new_value") /\ Field("delta").t = "num"

\* C2: a record with both new_value and delta, or with neither, is accepted by neither
\* validator (the pipeline converter's and the older script's); a record whose other
\* fields are valid and that has exactly one of the two, with a number, is accepted by
\* both.
C2_ExactlyOneValue ==
    Judged /\ IsRecord =>
        /\ HasBoth => ~Accepted /\ ~AcceptedScript
        /\ HasNeither => ~Accepted /\ ~AcceptedScript
        /\ (NoError /\ PartGood /\ FeatureGood /\ ParamGood /\ UnitGood /\ ConfGood
            /\ OneValueGood) => Accepted /\ AcceptedScript

\* a record that is valid but for having both numbers has been rejected for that
C2_Witness ==
    /\ Judged /\ NoError /\ PartGood /\ FeatureGood /\ ParamGood /\ UnitGood /\ ConfGood
    /\ HasBoth /\ Field("new_value").t = "num" /\ Field("delta").t = "num"
    /\ verdict = Out("False", <<Msg("both")>>)
    /\ verdict_script = Out("False", <<Msg("both")>>)

\* C3: an otherwise valid record is accepted by validate_output exactly when its
\* confidence is a number between 0 and 1, both included; every value that is no number
\* is rejected.
C3_ConfidenceRange ==
    (Judged /\ NoError /\ PartGood /\ FeatureGood /\ ParamGood /\ UnitGood /\ OneValueGood
     /\ HasField("confidence"))
        => (Accepted <=> ConfGood)

\* C4: an otherwise valid record whose unit is a string is accepted by validate_output
\* exactly when the unit is "mm" in some letter case.
C4_UnitCaseInsensitive ==
    (Judged /\ NoError /\ PartGood /\ FeatureGood /\ ParamGood /\ ConfGood /\ OneValueGood
     /\ HasField("unit") /\ Field("unit").t = "str")
        => (Accepted <=> Field("unit").s \in MmSpellings)

\* an otherwise valid record with the unit "MM" has been accepted
C4_Witness ==
    /\ Judged /\ NoError /\ PartGood /\ FeatureGood /\ ParamGood /\ ConfGood /\ OneValueGood
    /\ HasField("unit") /\ Field("unit") = S1("MM")
    /\ Accepted

\* C5: validate_output of the pipeline converter accepts no record whose feature is
\* not one of the 14 enumerated identifiers, whatever its other fields.
C5_FeatureEnumeration == Judged /\ IsRecord /\ ~FeatureGood => ~Accepted

\* a record that is valid but for its feature has been rejected for the feature
C5_Witness ==
    /\ Judged /\ NoError /\ PartGood /\ ParamGood /\ UnitGood /\ ConfGood /\ OneValueGood
    /\ HasField("feature") /\ Field("feature") = S1("Zed")
    /\ verdict = Out("False", <<Msg("feature")>>)

\* the checks a record with all required fields fails, and the required fields a
\* record lacks
FailedChecks ==
    {c \in {"unit", "confidence", "both", "neither", "feature"} :
        \/ c = "unit" /\ ~UnitGood
        \/ c = "confidence" /\ ~ConfGood
        \/ c = "both" /\ HasBoth
        \/ c = "neither" /\ HasNeither
        \/ c = "feature" /\ ~FeatureGood}
Lacking == {x \in Range(required_base_fields) : ~HasField(x)}
Reported(c) == \E i \in DOMAIN verdict.msgs : verdict.msgs[i].m = c

\* C6: the result of validate_output carries one reason for every check the record
\* fails, not only for the first; all missing required fields are reported together.
C6_EveryFailedCheckReported ==
    (Judged /\ IsRecord /\ NoError) =>
        /\ Lacking # {} =>
              \E i \in DOMAIN verdict.msgs :
                  verdict.msgs[i].m = "missing" /\ Range(verdict.msgs[i].d) = Lacking
        /\ (Lacking = {} /\ Field("unit").t = "str") => \A c \in FailedChecks : Reported(c)

\* C7: a candidate object with an "error" key is rejected by validate_output with the
\* error diagnostic alone: no other check is evaluated, so none reports and none raises.
C7_ErrorKeyFirst == Judged /\ HasField("error") => verdict = Out("False", <<Msg("error")>>)

\* a record with an error key, fields missing and a unit that is no string has been
\* rejected for the error key
C7_Witness ==
    /\ Judged /\ HasField("error") /\ ~HasField("part")
    /\ HasField("unit") /\ Field("unit").t = "num"
    /\ verdict = Out("False", <<Msg("error")>>)

(***************************************************************************)
(* Properties of the pipeline run                                          *)
(***************************************************************************)
\* the stages of a run that work on a batch
BatchStages == {"QUERY_SYNTH", "RETRIEVING", "GENERATING", "REFINING", "DONE", "RAISED",
                "FAILED"}

AcceptedRecord(v) == validate_output(v).res = "True"

\* C1: every record of the batch that reaches query synthesis and generation has been
\* accepted by validate_output, whether the batch came from the automated conversion
\* or from the manual fallback.
C1_BatchRecordsAccepted ==
    (pc \in BatchStages /\ origin \in {"auto", "manual"}) =>
        \A i \in DOMAIN instruction_list : AcceptedRecord(instruction_list[i])

\* C8: the conversion yields no batch when no candidate is accepted or when the
\* candidates, counted before validation, are more than 20; a batch is never a part of
\* the candidates; 20 valid candidates give a batch of 20.
C8_BatchAllOrNothing ==
    conv = "ok" =>
        /\ Len(responses) > MaxBatch => valid_responses = <<>>
        /\ (\A i \in DOMAIN responses : ~AcceptedRecord(responses[i]))
              => valid_responses = <<>>
        /\ valid_responses # <<>> => valid_responses = responses
        /\ (Len(responses) = MaxBatch /\ \A i \in DOMAIN responses : AcceptedRecord(responses[i]))
              => valid_responses = responses

(***************************************************************************)
(* Properties of extract_json                                              *)
(***************************************************************************)
\* C9: for a text that holds exactly one well-formed flat object, whatever its string
\* values, within prose that has no brace and no bracket, extract_json returns the
\* one-element list of that object.
C9_OneObjectExtracted ==
    (extracted.done /\ embedded.form = "object" /\ embedded.plain)
        => extracted.res = embedded.values

\* C10: for a text that holds an array of N well-formed flat objects, extract_json
\* returns the N elements in array order; arrays and objects of one text contribute to
\* the result in their order of appearance.
C10_ArrayExtractedInOrder ==
    (extracted.done /\ embedded.form \in {"array", "mixed"} /\ embedded.plain)
        => extracted.res = embedded.values

\* the string values of a flat object hold no brace and no bracket
PlainStrings(v) ==
    \A k \in DOMAIN v.f : v.f[k].t = "str" => Range(v.f[k].s) \cap {LB, RB, LK, RK} = {}

\* C11: a well-formed flat object next to a fragment with a brace or a bracket that is
\* no JSON, before it or after it, is still returned by extract_json: the candidate that
\* does not parse is skipped and the object is extracted.
C11_ObjectNextToFragment ==
    (extracted.done /\ embedded.form = "object" /\ ~embedded.plain
     /\ PlainStrings(embedded.values[1]))
        => extracted.res = embedded.values

\* the lines that report an empty conversion, and the line of the except clause
EmptyDiagnostics == {<<"JSON extraction failed">>, <<"No valid JSON found in response">>,
                     <<"Empty response from model">>}
FaultLine == <<"Error processing instruction">>

QueryParts == {S1("block"), S1("length"), JStr(<<"top", SP, "plate">>), JStr(<<>>),
               JNum(50)}
QueryParameters == {S1("Length"), S1("Width"), S1("Height"), S1("Diameter"), S1("Radius"),
                    S1("Thickness"), S1("Angle"), S1("Depth"), S1("length"), JStr(<<>>)}
QueryFeatures == {S1(f) : f \in allowed_features} \cup {S1("Zed"), JArr(<<>>)}

QueryRecords ==
    {Rec(p, f, q, "new_value", JNum(500), S1("mm"), JNum(5)) :
        p \in QueryParts, f \in QueryFeatures, q \in QueryParameters}
    \cup {JObj(K("part") :> S1("block")), JObj(<<>>)}

InitQ ==
    /\ pc = "QUERY_SYNTH"
    /\ response = <<>>
    /\ conv = "missing"
    /\ responses = <<>>
    /\ valid_responses = <<>>
    /\ instruction_list \in {<<r>> : r \in QueryRecords}
    /\ origin = "manual"
    /\ enhanced_query = <<>>
    /\ context = <<>>
    /\ request = <<>>
    /\ raw_code = <<>>
    /\ result = <<>>
    /\ Quiet
    /\ ValIdle
    /\ ExtIdle

NextQ == QuerySynth

SpecQ == InitQ /\ [][NextQ]_vars

\* the terms the claim lists, in its order, for the first record of the batch: the part,
\* the lower-cased parameter, the parameter synonyms, the feature synonyms
ListedTerms ==
    LET r == instruction_list[1].f
    IN  <<r[K("part")].s, Lower(r[K("parameter")].s)>>
        \o Terms(parameter_mapping(r[K("parameter")].s[1]))
        \o Terms(feature_mapping(r[K("feature")].s[1]))

\* the positions of ListedTerms that hold the first occurrence of their term
FirstOccurrences ==
    {i \in DOMAIN ListedTerms : \A j \in 1..(i - 1) : ListedTerms[j] # ListedTerms[i]}

\* is the query the terms at the positions pos (increasing), joined by single spaces
RECURSIVE JoinedAt(_, _)
JoinedAt(q, pos) ==
    IF pos = {} THEN q = <<>>
    ELSE LET i == Min(pos)
             t == ListedTerms[i]
         IN  /\ Len(q) >= Len(t)
             /\ SubSeq(q, 1, Len(t)) = t
             /\ IF pos = {i} THEN Len(q) = Len(t)
                ELSE /\ Len(q) > Len(t)
                     /\ q[Len(t) + 1] = SP
                     /\ JoinedAt(SubSeq(q, Len(t) + 2, Len(q)), pos \ {i})

\* a record whose part, parameter and feature are non-empty strings of the model
QueryRecordGood ==
    /\ instruction_list[1].t = "obj"
    /\ \A x \in {"part", "parameter", "feature"} :
          /\ K(x) \in DOMAIN instruction_list[1].f
          /\ instruction_list[1].f[K(x)].t = "str"
          /\ instruction_list[1].f[K(x)].s # <<>>

\* C13: for a record with non-empty part and parameter the query is the part, the
\* lower-cased parameter, the parameter synonyms and the feature synonyms, in this order,
\* each term kept at its first occurrence only, at most 5 terms, joined by single
\* spaces; block, Length, Extrude1 give a query that starts with "block length".
C13_QueryTerms ==
    (pc = "RETRIEVING" /\ QueryRecordGood) =>
        /\ Cardinality(FirstOccurrences) <= 5
        /\ JoinedAt(enhanced_query, FirstOccurrences)
        /\ (instruction_list[1].f[K("part")] = S1("block")
            /\ instruction_list[1].f[K("parameter")] = S1("Length"))
              => SubSeq(enhanced_query, 1, 3) = <<"block", SP, "length">>

\* the query of block, Length, Revolve1 has been built: five terms, "length" once
C13_Witness ==
    /\ pc = "RETRIEVING" /\ QueryRecordGood
    /\ instruction_list[1].f[K("feature")] = S1("Revolve1")
    /\ enhanced_query = <<"block", SP, "length", SP, "height", SP, "revolve", SP, "sphere">>

(***************************************************************************)
(* refine_generated_code applied to one generated text                     *)
(***************************************************************************)
\* bound of the model: lines per generated code body
MaxLines == 3

\* the lines a generated body is made of
CodeLines == {IMPORT_LINES[1], RUN_LINE, STOP_LINES[2], STOP_LINES[3], <<>>, <<"x">>}

CodeBodies == {JoinLines(b) : b \in SeqsUpTo(CodeLines, MaxLines)}

\* a fenced block: the opening fence, tagged or not, the body on its own lines, the
\* closing fence
Block(tag, body) == FENCE \o tag \o <<NL>> \o body \o <<NL>> \o FENCE

\* the texts the generation service may return: bare bodies, a body whose import line
\* comes after its fifth line, fences alone, one fenced block with or without
\* commentary around it, and two fenced blocks
GeneratedTexts ==
    LET LateImport == JoinLines(<< <<"x">>, <<"x">>, <<"x">>, <<"x">>, <<"x">>, IMPORT_LINES[1] >>)
        Tags       == {<<>>, <<"python">>, <<"js">>}
        Commentary == {<<>>, <<"Sure", CL, NL>>}
        Closing    == {<<>>, <<NL, "Done">>}
    IN  CodeBodies
        \cup {LateImport, <<SP, NL>>, FENCE, FENCE \o <<"python", NL>> \o RUN_LINE}
        \cup {pre \o Block(tag, body) \o post :
                pre \in Commentary, tag \in Tags, body \in CodeBodies, post \in Closing}
        \cup {Block(t1, b1) \o <<NL, "then", NL>> \o Block(t2, b2) :
                t1 \in Tags, t2 \in Tags, b1 \in {RUN_LINE, <<"x">>},
                b2 \in {IMPORT_LINES[1], <<"y">>}}

InitR ==
    /\ pc = "REFINING"
    /\ response = <<>>
    /\ conv = "none"
    /\ responses = <<>>
    /\ valid_responses = <<>>
    /\ instruction_list = <<>>
    /\ origin = "none"
    /\ enhanced_query = <<>>
    /\ context = <<>>
    /\ request = <<>>
    /\ raw_code \in GeneratedTexts
    /\ result = <<>>
    /\ Quiet
    /\ ValIdle
    /\ ExtIdle

NextR == Refine

SpecR == InitR /\ [][NextR]_vars

\* C14: refine_generated_code is idempotent: refining the refined text gives the
\* refined text again, for generated texts with or without fences, with or without an
\* import line in the first five lines, with or without a stop definition, the empty
\* text included.
C14_RefineIdempotent == pc = "DONE" => refine_generated_code(result) = result

\* a fenced text without import line and without stop definition has been refined, and
\* both were put in
C14_Witness ==
    /\ pc = "DONE"
    /\ Within(raw_code, FENCE)
    /\ ~Within(raw_code, IMPORT_LINES[1])
    /\ ~Within(raw_code, STOP_LINES[2])
    /\ Within(result, IMPORT_LINES[1])
    /\ Within(result, STOP_LINES[2])
    /\ ~Within(result, FENCE)

\* the positions of the fences of a text
Fences(t) == {i \in 1..(Len(t) - 2) : SubSeq(t, i, i + 2) = FENCE}

\* the content of the first fenced block of a text: what stands between the line of the
\* first fence (its language tag included) and the next fence
FirstBlockContent(t) ==
    LET inner == Split0(SubSeq(t, FirstAt(t, FENCE) + 3, Len(t)), FENCE)
    IN  SubSeq(inner, FirstAt(inner, <<NL>>) + 1, Len(inner))

\* C15: when the generated text contains several fenced code blocks, the refined code
\* is made of exactly the content of the first fenced block, tagged or not, and of
\* nothing else of the text.
C15_FirstFencedBlock ==
    (pc = "DONE" /\ Cardinality(Fences(raw_code)) >= 4)
        => result = refine_generated_code(FirstBlockContent(raw_code))

\* the positions where a numbered heading "Example k:" starts in a context
Headings(ctx) ==
    {p \in 1..(Len(ctx) - 3) : ctx[p] = "Example" /\ ctx[p + 1] = SP /\ ctx[p + 3] = CL}

\* the i-th heading of a context, and the text from it up to the next heading
HeadingAt(ctx, i) ==
    CHOOSE p \in Headings(ctx) : Cardinality({q \in Headings(ctx) : q < p}) = i - 1

Segment(ctx, i, n) ==
    SubSeq(ctx, HeadingAt(ctx, i), IF i < n THEN HeadingAt(ctx, i + 1) - 1 ELSE Len(ctx))

\* C16: the context format_search_results returns is never empty; it is the fixed
\* placeholder when the exemplar list is empty or missing, and otherwise holds one
\* block per exemplar, numbered 1..N in the store's ranking order, each with the
\* exemplar's title and code.
C16_ContextNeverEmpty ==
    search_results.documents # "unset" =>
        LET docs   == search_results.ranked
            listed == search_results.documents = "lists" /\ docs # <<>>
        IN  /\ context # <<>>
            /\ ~listed => context = <<"No relevant examples found.">>
            /\ listed =>
                  /\ Cardinality(Headings(context)) = Len(docs)
                  /\ \A i \in DOMAIN docs :
                        /\ Segment(context, i, Len(docs))[3] = Digits(i)
                        /\ Within(Segment(context, i, Len(docs)), <<"Title", CL, SP, docs[i].title>>)
                        /\ Within(Segment(context, i, Len(docs)), docs[i].doc)

\* two exemplars were retrieved and formatted
C16_Witness ==
    /\ pc = "GENERATING"
    /\ Len(search_results.ranked) = 2
    /\ search_results.ranked[1].title = "rod"
    /\ Within(context, <<"Example", SP, "2", CL>>)

(***************************************************************************)
(* Properties of the stages of process_text_instruction                    *)
(***************************************************************************)
\* the automated conversion failed as a whole: the converter did not end well, it found
\* no JSON, the validator accepted no candidate, or the candidates were more than 20
TotalAutomatedFailure ==
    \/ conv # "ok"
    \/ responses = <<>>
    \/ valid_responses = <<>>
    \/ Len(responses) > MaxBatch

\* how many times the operator was asked for a manual input
Solicited == Cardinality({i \in DOMAIN out : out[i] = "JSON: "})

\* C17: on every total automated failure the run goes to the manual fallback: once the
\* operator has been asked, the batch is the manual input, and the automated output is
\* never the batch.
C17_ManualOnTotalFailure ==
    (pc # "SUBMITTED" /\ TotalAutomatedFailure) =>
        /\ origin # "auto"
        /\ pc = "FALLBACK_MANUAL" \/ Solicited = 1

\* the run ended before query synthesis
FailedBeforeQuery == pc = "FAILED" /\ http = "none"

\* the stages from query synthesis on
FromQuerySynthesis ==
    \/ pc \in {"QUERY_SYNTH", "RAISED", "RETRIEVING", "GENERATING", "REFINING", "DONE"}
    \/ pc = "FAILED" /\ http # "none"

\* C18: a run fails before query synthesis only if the automated conversion and the
\* manual fallback both gave no batch; a non-empty batch from either takes the run to
\* query synthesis; the operator is asked at most once, and never when the automated
\* conversion gave a batch.
C18_FailsOnlyWhenBothEmpty ==
    pc # "SUBMITTED" =>
        /\ Solicited <= 1
        \* before the operator is asked the batch is the automated one
        /\ Solicited = 0 =>
              /\ instruction_list # <<>> => (origin = "auto" /\ FromQuerySynthesis)
              /\ instruction_list = <<>> => pc = "FALLBACK_MANUAL"
        /\ (origin = "auto" \/ valid_responses # <<>>) => (Solicited = 0 /\ FromQuerySynthesis)
        /\ FailedBeforeQuery
              => (Solicited = 1 /\ instruction_list = <<>> /\ valid_responses = <<>>)
        /\ instruction_list # <<>> => FromQuerySynthesis

\* the model answered without any JSON, the operator was asked and gave nothing usable
C18_Witness ==
    /\ FailedBeforeQuery
    /\ conv = "ok"
    /\ response # <<>>
    /\ Solicited = 1
    /\ out[Len(out)] = "Failed to get JSON instruction"

\* the query of the semantic store raised
StoreFailed == "Error searching database" \in Range(out)

\* C19: a failed store query never fails the run: search_database gives the empty
\* result, the context is the placeholder, the run goes on to the generation step, and
\* the generation request carries the placeholder as its examples.
C19_StoreFailureDegrades ==
    StoreFailed =>
        /\ search_results = [documents |-> "lists", ranked |-> <<>>]
        /\ context = <<"No relevant examples found.">>
        /\ pc \in {"GENERATING", "REFINING", "DONE", "FAILED", "RAISED"}
        /\ pc = "GENERATING" => ENABLED Generate
        \* the only ends without code come from the generation step itself
        /\ pc = "RAISED" => (http = "none" /\ task_raises(instruction_list))
        /\ pc = "FAILED" => (http # "none" /\ raw_code = <<>>)
        /\ http # "none" => request.examples = <<"No relevant examples found.">>

\* the store query failed and the run still ended with code
C19_Witness ==
    /\ StoreFailed
    /\ pc = "DONE"
    /\ http = "200"
    /\ request.examples = <<"No relevant examples found.">>
    /\ result # <<>>

\* the generation call gave no text: a timeout, a connection error, a status other
\* than 200, or an empty completion
GenerationFailed ==
    \/ http \in {"timeout", "connection", "500"}
    \/ http = "200" /\ raw_code = <<>>

\* what the run reports for each way the call can fail
FailureReport ==
    CASE http = "timeout"    -> "Ollama request timed out"
      [] http = "connection" -> "Cannot connect to Ollama - is it running?"
      [] http = "500"        -> "Ollama API error: HTTP 500"
      [] OTHER               -> "Empty response from Ollama"

\* C20: a failed generation call ends the run: the refinement step does not run, no
\* code is returned, and the failure is reported.
C20_GenerationFailureTerminal ==
    GenerationFailed =>
        /\ pc = "FAILED"
        /\ ~ENABLED Next
        /\ result = <<>>
        /\ "Code generation complete!" \notin Range(out)
        /\ Len(out) >= 2
        /\ out[Len(out) - 1] = FailureReport
        /\ out[Len(out)] = "Failed to generate code"

\* the generation call timed out after a retrieval that found exemplars
C20_Witness ==
    /\ http = "timeout"
    /\ pc = "FAILED"
    /\ search_results.ranked # <<>>
    /\ request.examples = context

\* C21: whenever the generation call returns non-empty text the run goes through the
\* refinement to DONE: the run is at the refinement or past it, every step from the
\* refinement ends the run with non-empty code, and the finished run has reported the
\* completion.
C21_RefinementAlwaysSucceeds ==
    /\ [](  (http = "200" /\ raw_code # <<>>) =>
               /\ pc \in {"REFINING", "DONE"}
               /\ pc = "DONE" => (result # <<>> /\ out[Len(out)] = "Code generation complete!"))
    /\ [][pc = "REFINING" => (pc' = "DONE" /\ result' # <<>>)]_vars

\* the service answered with blank text only, and the run still returned code
C21_Witness ==
    /\ pc = "DONE"
    /\ http = "200"
    /\ raw_code = <<SP, NL>>
    /\ result # <<>>

\* C22: no exception leaves process_text_instruction: whatever the operator types and
\* whatever the collaborators do, the run ends by returning code, or by returning None
\* after a diagnostic.
C22_NoExceptionEscapes ==
    /\ pc # "RAISED"
    /\ pc = "DONE" => result # <<>>
    /\ pc = "FAILED" =>
          out[Len(out)] \in {"Failed to get JSON instruction", "Failed to generate code"}

\* the value a record holds under a key
Holds(v, key) == v.t = "obj" /\ K(key) \in DOMAIN v.f
ValueOf(v, key) == v.f[K(key)]

\* the confidence of a record lies in [0, 1] (numbers are kept in tenths)
ConfidenceInRange(v) ==
    /\ Holds(v, "confidence")
    /\ ValueOf(v, "confidence").t = "num"
    /\ ValueOf(v, "confidence").n >= 0
    /\ ValueOf(v, "confidence").n <= 10

\* C23: end to end, when the model response holds N records that are all valid, the
\* batch that reaches query synthesis is exactly those N records, each once and in the
\* order of the response, each with a confidence in [0, 1]; the query made from a first
\* record for part "block" and parameter "Length" contains "block" and "length".
C23_EndToEndBatch ==
    (/\ pc \in BatchStages
     /\ origin = "auto"
     /\ responses # <<>>
     /\ Len(responses) <= MaxBatch
     /\ \A i \in DOMAIN responses : AcceptedRecord(responses[i]))
        => /\ instruction_list = responses
           /\ \A i \in DOMAIN instruction_list : ConfidenceInRange(instruction_list[i])
           /\ (/\ pc \notin {"QUERY_SYNTH", "RAISED"}
               /\ ValueOf(instruction_list[1], "part") = S1("block")
               /\ ValueOf(instruction_list[1], "parameter") = S1("Length"))
                 => (Within(enhanced_query, <<"block">>) /\ Within(enhanced_query, <<"length">>))

\* the place of a stage in the order conversion, manual fallback, query synthesis,
\* retrieval, generation, refinement, end of the run
StageRank(stage) ==
    CASE stage = "SUBMITTED"       -> 1
      [] stage = "FALLBACK_MANUAL" -> 2
      [] stage = "QUERY_SYNTH"     -> 3
      [] stage = "RETRIEVING"      -> 4
      [] stage = "GENERATING"      -> 5
      [] stage = "REFINING"        -> 6
      [] OTHER                     -> 7

\* C24: within one run the stages execute strictly in the order conversion, manual
\* fallback, query synthesis, retrieval, generation, refinement, and each external call
\* is issued at most once: once the conversion, the store query or the generation call
\* has ended, well or not, its outcome stands for the rest of the run.
C24_StagesInOrderNoRetry ==
    [][ /\ StageRank(pc') > StageRank(pc)
        /\ conv # "none" => (conv' = conv /\ response' = response)
        /\ search_results.documents # "unset" => (search_results' = search_results /\ context' = context)
        /\ http # "none" => (http' = http /\ raw_code' = raw_code /\ request' = request) ]_vars

\* a run in which the conversion timed out, the store query failed and the generation
\* call timed out, each once
C24_Witness ==
    /\ pc = "FAILED"
    /\ conv = "timeout"
    /\ StoreFailed
    /\ http = "timeout"
    /\ out = <<"Text-to-JSON conversion failed, trying manual input...", "JSON: ",
               "Error searching database", "Ollama request timed out",
               "Failed to generate code">>

\* C25: the normalization extract_json applies to the response text (trim, delete the
\* json-tagged fences, delete the fences) is idempotent: normalizing the normalized
\* text changes nothing, fenced texts with a newline after the fence included.
C25_NormalizeIdempotent ==
    extracted.done => Normalize(Normalize(text)) = Normalize(text)

\* the numeric value field of a record: new_value, or delta when it has no new_value
NumericValue(v) == IF Holds(v, "new_value") THEN ValueOf(v, "new_value") ELSE ValueOf(v, "delta")

\* C26: all records of the batch are folded into the generation request: the task
\* description has one entry per record, in batch order, with the record's parameter,
\* its numeric value (new_value or delta) and its unit, while the retrieval query is the
\* one made from the first record alone.
C26_AllRecordsInRequest ==
    (http # "none" /\ \A i \in DOMAIN instruction_list : AcceptedRecord(instruction_list[i])) =>
        /\ Len(request.task) = Len(instruction_list)
        /\ \A i \in DOMAIN instruction_list :
              /\ request.task[i].param = ValueOf(instruction_list[i], "parameter")
              /\ request.task[i].value = NumericValue(instruction_list[i])
              /\ request.task[i].unit = ValueOf(instruction_list[i], "unit")
        /\ enhanced_query = create_enhanced_search_query(instruction_list[1]).q

\* the first five lines of a text, or all its lines when it has fewer
FirstFive(t) ==
    LET lines == SplitLines(t)
    IN  SubSeq(lines, 1, IF Len(lines) < 5 THEN Len(lines) ELSE 5)

\* the elements the system test looks for in the returned code
RequiredElements ==
    {<<"import", SP, "adsk.core">>, <<"import", SP, "adsk.fusion">>,
     <<"def", SP, "run(context)", CL>>, <<"def", SP, "stop(context)", CL>>}

\* C27: for any raw generated text the refined code has a line with "import adsk" among
\* its first five lines and a line with the stop definition, and therefore contains the
\* four elements the system test requires: "import adsk.core", "import adsk.fusion",
\* "def run(context):" and "def stop(context):".
C27_StructuralElements ==
    pc = "DONE" =>
        /\ \E i \in DOMAIN FirstFive(result) :
              HasImportAdsk(FirstFive(result)[i])
        /\ \E i \in DOMAIN SplitLines(result) :
              Within(SplitLines(result)[i], <<"def", SP, "stop(context)", CL>>)
        /\ \A element \in RequiredElements : Within(result, element)

\* a candidate whose unit field is there and is no string
NonStringUnit(v) == Holds(v, "unit") /\ ValueOf(v, "unit").t # "str"

\* C28: a candidate whose unit is present but no string is rejected by validate_output
\* like any other invalid record, and the other candidates of the same response are
\* still validated: every candidate validate_output accepts is in the batch
\* process_cad_instruction returns.
C28_NonStringUnitRejected ==
    conv = "ok" =>
        \A i \in DOMAIN responses :
            (NonStringUnit(responses[i]) /\ ~Holds(responses[i], "error")) =>
                /\ validate_output(responses[i]).res = "False"
                /\ \A j \in DOMAIN responses :
                      AcceptedRecord(responses[j]) => responses[j] \in Range(valid_responses)

\* C29: every element of the list extract_json returns is a JSON object: the elements of
\* a parsed array that are no objects are not handed to validate_output, so a response
\* such as [1, {valid record}] still yields the valid record.
C29_OnlyObjectsExtracted ==
    extracted.done =>
        /\ \A i \in DOMAIN extracted.res : extracted.res[i].t = "obj"
        /\ embedded.form = "scalars" =>
              \A i \in DOMAIN embedded.values :
                  (embedded.values[i].t = "obj" /\ AcceptedRecord(embedded.values[i]))
                      => embedded.values[i] \in Range(process_cad_instruction(text).ret)

(***************************************************************************)
(* One call of QwenCoderBot.process_instruction                            *)
(***************************************************************************)
\* the text block of exemplar i as the bot writes it: no distance line
BotExampleBlock(i, ex) ==
    <<NL, "Example", SP, Digits(i), CL, NL,
      "Title", CL, SP, ex.title, NL,
      "Description", CL, SP, "description", NL,
      "Category", CL, SP, "category", NL,
      "Tags", CL, SP, "tags", NL,
      "Parameters", CL, SP, "parameters", NL, NL,
      "Code", CL, NL>> \o FENCE \o <<"python", NL>> \o ex.doc \o <<NL>> \o FENCE \o <<NL>>

\* QwenCoderBot.format_search_results
bot_format_search_results(results) ==
    LET docs == results.ranked
        RECURSIVE Blocks(_)
        Blocks(i) == IF i > Len(docs) THEN <<>>
                     ELSE BotExampleBlock(i, docs[i])
                          \o (IF i < Len(docs) THEN <<NL>> ELSE <<>>) \o Blocks(i + 1)
    IN  IF results.documents = "lists" /\ docs # <<>> THEN Blocks(1) ELSE PLACEHOLDER

\* search_query = f"{part} {feature} {parameter}", each read with get(key, '')
bot_search_query(instruction_json) ==
    PyStr(Get(instruction_json, "part", JStr(<<>>))) \o <<SP>>
    \o PyStr(Get(instruction_json, "feature", JStr(<<>>))) \o <<SP>>
    \o PyStr(Get(instruction_json, "parameter", JStr(<<>>)))

\* generate_code_with_qwen: the completion when the call answered 200; otherwise the
\* text of the failure is what the function returns
generate_code_with_qwen(status, completion) ==
    CASE status = "200" -> completion
      [] status = "500" -> <<"Error", SP, "calling", SP, "Ollama", CL, SP, "HTTP", SP, "500">>
      [] status = "timeout" ->
            <<"Error", SP, "connecting", SP, "to", SP, "Ollama", CL, SP, "Read", SP, "timed", SP, "out">>
      [] status = "connection" ->
            <<"Error", SP, "connecting", SP, "to", SP, "Ollama", CL, SP, "Connection", SP, "refused">>

\* the instruction of the system test, and others with fewer fields
BotInstructions ==
    {Rec(S1("cylinder"), S1("Extrude1"), S1("Length"), "new_value", JNum(1000), S1("mm"), JNum(9)),
     ValidLength, ValidDelta, JObj(K("part") :> S1("block")), JObj(<<>>)}

InitB ==
    /\ pc = "BOT_SUBMITTED"
    /\ response = <<>>
    /\ conv = "none"
    /\ responses = <<>>
    /\ valid_responses = <<>>
    /\ instruction_list \in {<<r>> : r \in BotInstructions}
    /\ origin = "none"
    /\ enhanced_query = <<>>
    /\ context = <<>>
    /\ request = <<>>
    /\ raw_code = <<>>
    /\ result = <<>>
    /\ Quiet
    /\ ValIdle
    /\ ExtIdle

\* process_instruction: the query, search_database, format_search_results,
\* generate_code_with_qwen, refine_generated_code, return refined_code
ProcessInstruction ==
    /\ pc = "BOT_SUBMITTED"
    /\ enhanced_query' = bot_search_query(instruction_list[1])
    /\ \E store_ok \in BOOLEAN, results \in StoreResults, h \in HttpOutcomes, c \in Completions :
          /\ h # "200" => c = <<>>
          /\ search_results' = search_database(store_ok, results)
          /\ context' = bot_format_search_results(search_database(store_ok, results))
          /\ out' = out \o (IF store_ok THEN <<>> ELSE <<"Error searching database">>)
          /\ http' = h
          /\ raw_code' = generate_code_with_qwen(h, c)
          /\ result' = refine_generated_code(generate_code_with_qwen(h, c))
    /\ pc' = "BOT_DONE"
    /\ UNCHANGED <<response, conv, responses, valid_responses, instruction_list, origin,
                   request, valVars, extVars>>

NextB == ProcessInstruction

SpecB == InitB /\ [][NextB]_vars

\* C30: in QwenCoderBot.process_instruction a failed generation call (connection error,
\* timeout, status other than 200) gives no code: the text of the failure is not refined
\* and handed back as if it were generated code.
C30_BotFailureReturnsNoCode ==
    (pc = "BOT_DONE" /\ http # "200") =>
        /\ result = <<>>
        /\ ~Within(result, <<"Error", SP>>)

=============================================================================
